---- MODULE Spec2Model ----
(***************************************************************************)
(* A model of maketheme.py, the CSS theme generator: the colour math       *)
(* (hex_to_rgb, rgb_to_hsl, get_neutral_rgb, adjust_dl, scheme_adjust_dl,  *)
(* get_position, rl_adjust, get_hue_rotation), generate_theme and the      *)
(* command line entry point.                                               *)
(*                                                                         *)
(* A Python float is a record [n, d, x]: the exact rational n/d (d > 0)    *)
(* the computation aims at, and x, whether the float holds exactly that    *)
(* value (an IEEE operation on exact operands is exact when its result is  *)
(* a dyadic rational).  A float that is not exact lies within rounding     *)
(* error of n/d, so int() of it is the truncation of n/d unless n/d is an  *)
(* integer, where the float may fall just short of it: the variable fpu    *)
(* says which of the two the floating point unit does in this run.         *)
(* Comparisons of floats are made on n/d.  A raised ZeroDivisionError is   *)
(* the field exc of a result.  Strings that the program parses (the colour *)
(* argument) are sequences of one-character strings.                       *)
(*                                                                         *)
(* The({e : v \in {d}}) is LET v == d IN e with d evaluated once: the      *)
(* model checker evaluates a definition again at each use, a bound         *)
(* variable holds a value.                                                 *)
(***************************************************************************)
EXTENDS Integers, Sequences, FiniteSets, TLC

VARIABLES
    pc,        \* position of the run of the __main__ block
    argv,      \* sys.argv
    color,     \* sys.argv[1]
    scheme,    \* sys.argv[2], or 'dark'
    called,    \* whether generate_theme has been called
    stdout,    \* the lines print() has written, in order
    exit,      \* the exit status of the process, -1 while it runs
    fpu,       \* "exact" or "short": int() of an inexact float on an integer
    op,        \* the function applied last (pure function specification)
    arg,       \* its arguments
    res        \* its result

vars == <<pc, argv, color, scheme, called, stdout, exit, fpu, op, arg, res>>

progVars == <<pc, argv, color, scheme, called, stdout, exit>>

fnVars == <<op, arg, res>>

----------------------------------------------------------------------------
(* Float arithmetic.                                                       *)

\* the element of a singleton set
The(S) == CHOOSE v \in S : TRUE

Abs(a) == IF a >= 0 THEN a ELSE -a

\* the powers of two that can be the denominator of an exact float here
Pow2 == {1, 2, 4, 8, 16, 32, 64, 128, 256, 512, 1024}

\* n/d is a dyadic rational m/k, hence a float
Dyadic(n, d) == \E k \in Pow2 : (Abs(n) * k) % d = 0

\* a float literal, or an int converted to float
Lit(n, d) == [n |-> n, d |-> d, x |-> Dyadic(n, d)]

IsZero(a) == a.n = 0 /\ a.x

IsOne(a) == a.n = a.d /\ a.x

RLe(a, b) == a.n * b.d <= b.n * a.d

RLt(a, b) == a.n * b.d < b.n * a.d

RNeg(a) == [n |-> -a.n, d |-> a.d, x |-> a.x]

RAdd(a0, b0) ==
    The({ IF IsZero(b) THEN a
          ELSE IF IsZero(a) THEN b
          ELSE The({ [n |-> n, d |-> a.d * b.d, x |-> a.x /\ b.x /\ Dyadic(n, a.d * b.d)]
                     : n \in {a.n * b.d + b.n * a.d} })
          : a \in {a0}, b \in {b0} })

RSub(a, b) == RAdd(a, RNeg(b))

\* c * a for an int c
RMulInt(c, a0) ==
    The({ IF c = 0 \/ IsZero(a) THEN Lit(0, 1)
          ELSE IF IsOne(a) THEN Lit(c, 1)
          ELSE [n |-> c * a.n, d |-> a.d, x |-> a.x /\ Dyadic(c * a.n, a.d)]
          : a \in {a0} })

\* min(a, b) and max(a, b); of two floats aimed at the same value the
\* inexact one stands for both
RMin(a0, b0) ==
    The({ IF RLt(b, a) \/ (~RLt(a, b) /\ a.x) THEN b ELSE a
          : a \in {a0}, b \in {b0} })

RMax(a0, b0) ==
    The({ IF RLt(a, b) \/ (~RLt(b, a) /\ a.x) THEN b ELSE a
          : a \in {a0}, b \in {b0} })

\* int(a): truncation toward zero
Trunc(a0) ==
    The({ The({ IF a.x \/ fpu = "exact" \/ a.n % a.d # 0 \/ t = 0 THEN t
                ELSE IF t > 0 THEN t - 1 ELSE t + 1
                : t \in {IF a.n >= 0 THEN a.n \div a.d ELSE -((-a.n) \div a.d)} })
          : a \in {a0} })

Min2(a, b) == IF a <= b THEN a ELSE b

Max2(a, b) == IF a >= b THEN a ELSE b

Max3(r, g, b) == Max2(r, Max2(g, b))

Min3(r, g, b) == Min2(r, Min2(g, b))

----------------------------------------------------------------------------
(* Colour conversion.                                                      *)

LowerHex == <<"0", "1", "2", "3", "4", "5", "6", "7", "8", "9",
              "a", "b", "c", "d", "e", "f">>

UpperHex == <<"0", "1", "2", "3", "4", "5", "6", "7", "8", "9",
              "A", "B", "C", "D", "E", "F">>

\* [0-9A-Fa-f]
IsHexDigit(ch) == \E i \in 1..16 : LowerHex[i] = ch \/ UpperHex[i] = ch

\* the value of one base-16 digit
HexVal(ch) == CHOOSE v \in 0..15 : LowerHex[v + 1] = ch \/ UpperHex[v + 1] = ch

\* int(s, 16) of a two-digit string
Int16(s) == 16 * HexVal(s[1]) + HexVal(s[2])

RECURSIVE LStripHash(_)
\* hex_color.lstrip('#')
LStripHash(s) == IF Len(s) > 0 /\ s[1] = "#" THEN LStripHash(Tail(s)) ELSE s

hex_to_rgb(hex_color) ==
    LET h == LStripHash(hex_color)
    IN  <<Int16(SubSeq(h, 1, 2)), Int16(SubSeq(h, 3, 4)), Int16(SubSeq(h, 5, 6))>>

\* x/255.0 is exact for these channels only
Extreme(v) == v = 0 \/ v = 255

\* colorsys.rgb_to_hls on r/255.0, g/255.0, b/255.0, returned as (h, s, l):
\* l = (maxc+minc)/2.0, h = (h/6.0) % 1.0 with h = bc-gc, 2.0+rc-bc or
\* 4.0+gc-rc and rc = (maxc-r)/rangec ...; all in units of 1/255.
rgb_to_hsl(r, g, b) ==
    The({ The({ IF minc = maxc
                THEN <<Lit(0, 1), Lit(0, 1), l>>
                ELSE LET s  == IF RLe(l, Lit(1, 2))
                               THEN [n |-> rangec, d |-> sumc,
                                     x |-> ex /\ Dyadic(rangec, sumc)]
                               ELSE [n |-> rangec, d |-> 510 - sumc,
                                     x |-> ex /\ Dyadic(rangec, 510 - sumc)]
                         hx == IF r = maxc THEN g - b
                               ELSE IF g = maxc THEN 2 * rangec + (b - r)
                               ELSE 4 * rangec + (r - g)
                         hn == hx % (6 * rangec)
                     IN  <<[n |-> hn, d |-> 6 * rangec,
                            x |-> ex /\ Dyadic(hn, 6 * rangec)], s, l>>
                : sumc \in {maxc + minc}, rangec \in {maxc - minc},
                  ex \in {Extreme(r) /\ Extreme(g) /\ Extreme(b)},
                  l \in {[n |-> maxc + minc, d |-> 510,
                          x |-> Extreme(maxc) /\ Extreme(minc)]} })
          : maxc \in {Max3(r, g, b)}, minc \in {Min3(r, g, b)} })

\* the decimal text of an alpha given in hundredths, as str(float) prints it
AlphaStr(a) ==
    IF a % 10 = 0 THEN "0." \o ToString(a \div 10)
    ELSE IF a < 10 THEN "0.0" \o ToString(a)
    ELSE "0." \o ToString(a)

rgb_to_str(rgb) ==
    "rgb(" \o ToString(rgb[1]) \o ", " \o ToString(rgb[2]) \o ", "
           \o ToString(rgb[3]) \o ")"

rgba_to_str(rgb, alpha) ==
    "rgba(" \o ToString(rgb[1]) \o ", " \o ToString(rgb[2]) \o ", "
            \o ToString(rgb[3]) \o ", " \o AlphaStr(alpha) \o ")"

----------------------------------------------------------------------------
(* Neutral anchor.                                                         *)

\* int(x * factor) of one channel, before the clamp
ScaleChannel(v, factor) == Trunc(RMulInt(v, factor))

adjust_rgb(rgb, factor) ==
    [i \in 1..3 |-> Min2(255, Max2(0, ScaleChannel(rgb[i], factor)))]

\* neutral_factor aiming at lightness 1.0: 1.0 / l
neutral_factor_Full(rgb) ==
    LET l == rgb_to_hsl(rgb[1], rgb[2], rgb[3])[3]
    IN  IF l.n > 0
        THEN [n |-> l.d, d |-> l.n, x |-> l.x /\ Dyadic(l.d, l.n)]
        ELSE Lit(1, 1)

\* 0.5 / l if l > 0 else 1.0
neutral_factor(rgb) ==
    LET l == rgb_to_hsl(rgb[1], rgb[2], rgb[3])[3]
    IN  IF l.n > 0
        THEN [n |-> l.d, d |-> 2 * l.n, x |-> l.x /\ Dyadic(l.d, 2 * l.n)]
        ELSE Lit(1, 1)

get_neutral_rgb(rgb) == adjust_rgb(rgb, neutral_factor(rgb))

----------------------------------------------------------------------------
(* Positions on the 0-2 scale.                                             *)

\* adjust_dl blending toward white by position instead of position - 1.0
adjust_dl_FactorNotRebased(neutral_rgb, position) ==
    The({ IF RLt(p, Lit(1, 1))
          THEN [i \in 1..3 |-> Trunc(RMulInt(neutral_rgb[i], p))]
          ELSE [i \in 1..3 |->
                   Min2(255, Trunc(RAdd(Lit(neutral_rgb[i], 1),
                                        RMulInt(255 - neutral_rgb[i], p))))]
          : p \in {RMax(Lit(0, 1), RMin(Lit(2, 1), position))} })

adjust_dl(neutral_rgb, position) ==
    The({ IF RLt(p, Lit(1, 1))
          THEN [i \in 1..3 |-> Trunc(RMulInt(neutral_rgb[i], p))]
          ELSE The({ [i \in 1..3 |->
                         Trunc(RAdd(Lit(neutral_rgb[i], 1),
                                    RMulInt(255 - neutral_rgb[i], factor)))]
                     : factor \in {RSub(p, Lit(1, 1))} })
          : p \in {RMax(Lit(0, 1), RMin(Lit(2, 1), position))} })

\* scheme_adjust_dl without the inversion of the light scheme
scheme_adjust_dl_NoInvert(neutral_rgb, sch, position) ==
    adjust_dl(neutral_rgb, position)

\* scheme_adjust_dl inverting around 0.5: 1.0 - position
scheme_adjust_dl_InvertAroundHalf(neutral_rgb, sch, position) ==
    IF sch = "light"
    THEN adjust_dl(neutral_rgb, RSub(Lit(1, 1), position))
    ELSE adjust_dl(neutral_rgb, position)

scheme_adjust_dl(neutral_rgb, sch, position) ==
    IF sch = "light"
    THEN adjust_dl(neutral_rgb, RSub(Lit(2, 1), position))
    ELSE adjust_dl(neutral_rgb, position)

\* color_l and neutral_l are the same float: the same two channels summed
SameLightness(c, neutral_rgb) ==
    /\ Max3(c[1], c[2], c[3]) = Max3(neutral_rgb[1], neutral_rgb[2], neutral_rgb[3])
    /\ Min3(c[1], c[2], c[3]) = Min3(neutral_rgb[1], neutral_rgb[2], neutral_rgb[3])

\* [exc, val]: exc when the division by a zero lightness raises.  A float
\* divided by itself is exactly 1.0, and 0.0 divided is 0.0.
get_position(c, neutral_rgb) ==
    The({ IF RLe(color_l, neutral_l)
          THEN IF neutral_l.n = 0
               THEN [exc |-> TRUE, val |-> Lit(0, 1)]
               ELSE [exc |-> FALSE,
                     val |-> IF IsZero(color_l) THEN Lit(0, 1)
                             ELSE IF SameLightness(c, neutral_rgb) THEN Lit(1, 1)
                             ELSE [n |-> color_l.n, d |-> neutral_l.n,
                                   x |-> color_l.x /\ neutral_l.x
                                         /\ Dyadic(color_l.n, neutral_l.n)]]
          ELSE IF neutral_l.n = neutral_l.d
               THEN [exc |-> TRUE, val |-> Lit(0, 1)]
               ELSE LET qn == color_l.n - neutral_l.n
                        qd == neutral_l.d - neutral_l.n
                    IN  [exc |-> FALSE,
                         val |-> IF IsOne(color_l) THEN Lit(2, 1)
                                 ELSE RAdd(Lit(1, 1),
                                           [n |-> qn, d |-> qd,
                                            x |-> color_l.x /\ neutral_l.x
                                                  /\ Dyadic(qn, qd)])]
          : color_l \in {rgb_to_hsl(c[1], c[2], c[3])[3]},
            neutral_l \in {rgb_to_hsl(neutral_rgb[1], neutral_rgb[2],
                                      neutral_rgb[3])[3]} })

\* rl_position without the negation of the shift in the light scheme
rl_position_NoNegate(c, shift, neutral_rgb, sch) ==
    The({ IF cur.exc THEN cur
          ELSE LET current_pos == cur.val
                   max_up      == RSub(Lit(2, 1), current_pos)
                   max_down    == current_pos
                   sh          == RMax(RNeg(max_down), RMin(max_up, shift))
               IN  [exc |-> FALSE,
                    val |-> IF RLe(shift, RNeg(max_down)) THEN Lit(0, 1)
                            ELSE IF RLt(max_up, shift) /\ RLe(Lit(1, 1), current_pos)
                                 THEN Lit(2, 1)
                            ELSE RAdd(current_pos, sh)]
          : cur \in {get_position(c, neutral_rgb)} })

\* the position rl_adjust hands to adjust_dl: current_pos + the clamped
\* shift.  x + (-x) is exactly 0.0, and x + (2.0 - x) is exactly 2.0 for
\* 1.0 <= x <= 2.0, where 2.0 - x is exact.
rl_position(c, shift, neutral_rgb, sch) ==
    The({ IF cur.exc THEN cur
          ELSE LET current_pos == cur.val
                   max_up      == RSub(Lit(2, 1), current_pos)
                   max_down    == current_pos
                   wanted      == IF sch = "dark" THEN shift ELSE RNeg(shift)
                   sh          == RMax(RNeg(max_down), RMin(max_up, wanted))
               IN  [exc |-> FALSE,
                    val |-> IF RLe(wanted, RNeg(max_down)) THEN Lit(0, 1)
                            ELSE IF RLt(max_up, wanted) /\ RLe(Lit(1, 1), current_pos)
                                 THEN Lit(2, 1)
                            ELSE RAdd(current_pos, sh)]
          : cur \in {get_position(c, neutral_rgb)} })

\* [exc, val]
rl_adjust(c, shift, neutral_rgb, sch) ==
    The({ IF p.exc THEN [exc |-> TRUE, val |-> <<0, 0, 0>>]
          ELSE [exc |-> FALSE, val |-> adjust_dl(neutral_rgb, p.val)]
          : p \in {rl_position(c, shift, neutral_rgb, sch)} })

----------------------------------------------------------------------------
(* Hue rotation.                                                           *)

\* get_hue_rotation wrapping only a rotation above 180, not one below -180
get_hue_rotation_WrapPositiveOnly(from_color, to_color) ==
    The({ The({ Trunc(IF RLt(Lit(180, 1), rotation)
                      THEN RSub(rotation, Lit(360, 1))
                      ELSE rotation)
                : rotation \in
                    {RSub(RMulInt(360, rgb_to_hsl(to_rgb[1], to_rgb[2], to_rgb[3])[1]),
                          RMulInt(360, rgb_to_hsl(from_rgb[1], from_rgb[2],
                                                  from_rgb[3])[1]))} })
          : from_rgb \in {hex_to_rgb(from_color)},
            to_rgb \in {hex_to_rgb(to_color)} })

get_hue_rotation(from_color, to_color) ==
    The({ The({ LET absrot  == IF rotation.n >= 0 THEN rotation ELSE RNeg(rotation)
                    wrapped == IF RLt(Lit(180, 1), absrot)
                               THEN IF rotation.n > 0
                                    THEN RSub(rotation, Lit(360, 1))
                                    ELSE RAdd(rotation, Lit(360, 1))
                               ELSE rotation
                IN  Trunc(wrapped)
                : rotation \in
                    {RSub(RMulInt(360, rgb_to_hsl(to_rgb[1], to_rgb[2], to_rgb[3])[1]),
                          RMulInt(360, rgb_to_hsl(from_rgb[1], from_rgb[2],
                                                  from_rgb[3])[1]))} })
          : from_rgb \in {hex_to_rgb(from_color)},
            to_rgb \in {hex_to_rgb(to_color)} })

----------------------------------------------------------------------------
(* Theme assembly.  A line of text is [prop, val]: a CSS declaration       *)
(* "prop: val;", or, with prop = "", the text val.  Of the template the    *)
(* lines with a computed value are kept, and ":root {"; its constant       *)
(* var(--...) declarations and comments are left out.                      *)

Text(t) == [prop |-> "", val |-> t]

Decl(prop, v) == [prop |-> prop, val |-> v]

RECURSIVE Join(_)
\* the string of a sequence of characters
Join(s) == IF s = <<>> THEN "" ELSE Head(s) \o Join(Tail(s))

LogoColor == <<"#", "8", "1", "5", "E", "E", "8">>

\* [exc, css]: exc when a call raises, else the lines of the returned text
generate_theme(base_color, sch) ==
  The({
    LET adjust(position)     == scheme_adjust_dl(neutral_rgb, sch, position)
        rel_adjust(c, shift) == rl_adjust(c, shift, neutral_rgb, sch)
    IN
    The({ The({
        IF \/ highlight.exc \/ shade.exc \/ secondary.exc \/ tertiary.exc
           \/ input_bg.exc \/ input_border.exc \/ input_text.exc \/ menu_bg.exc
        THEN [exc |-> TRUE, css |-> <<>>]
        ELSE [exc |-> FALSE, css |-> <<
            Text("/* Generated theme from " \o Join(base_color) \o " */"),
            Text(":root {"),
            Decl("--contrast-5", rgb_to_str(adjust(Lit(1, 10)))),
            Decl("--contrast-10", rgb_to_str(adjust(Lit(2, 10)))),
            Decl("--contrast-20", rgb_to_str(adjust(Lit(4, 10)))),
            Decl("--contrast-30", rgb_to_str(adjust(Lit(6, 10)))),
            Decl("--contrast-40", rgb_to_str(adjust(Lit(8, 10)))),
            Decl("--contrast-50", rgb_to_str(adjust(Lit(10, 10)))),
            Decl("--contrast-60", rgb_to_str(adjust(Lit(12, 10)))),
            Decl("--contrast-70", rgb_to_str(adjust(Lit(14, 10)))),
            Decl("--contrast-80", rgb_to_str(adjust(Lit(16, 10)))),
            Decl("--contrast-90", rgb_to_str(adjust(Lit(18, 10)))),
            Decl("--primary-color", rgb_to_str(primary)),
            Decl("--primary-color-highlight", rgb_to_str(highlight.val)),
            Decl("--primary-color-shade", rgb_to_str(shade.val)),
            Decl("--primary-overlay", rgba_to_str(primary, 15)),
            Decl("--body-color", rgb_to_str(primary)),
            Decl("--text-color", rgb_to_str(contrast)),
            Decl("--secondary-text-color", rgb_to_str(secondary.val)),
            Decl("--tertiary-text-color", rgb_to_str(tertiary.val)),
            Decl("--contrast-text-color", rgb_to_str(adjust(Lit(20, 10)))),
            Decl("--primary-text-color", rgb_to_str(adjust(Lit(10, 10)))),
            Decl("--link-color", rgb_to_str(adjust(Lit(1, 1)))),
            Decl("--secondary-link-color", rgb_to_str(adjust(Lit(12, 10)))),
            Decl("--alternative-color", rgb_to_str(adjust(Lit(1, 1)))),
            Decl("--alternative-color-dark", rgb_to_str(contrast)),
            Decl("--input-bg", rgb_to_str(input_bg.val)),
            Decl("--input-border", rgb_to_str(input_border.val)),
            Decl("--input-text", rgb_to_str(input_text.val)),
            Decl("--input-placeholder-color", rgba_to_str(contrast, 50)),
            Decl("--btn-bg-color", rgba_to_str(contrast, 50)),
            Decl("--btn-hover-bg-color", rgba_to_str(contrast, 60)),
            Decl("--menu-bg-color", rgb_to_str(menu_bg.val)),
            Decl("--modal-overlay-bg-color", rgba_to_str(adjust(Lit(1, 10)), 50)),
            Decl("--modal-container-bg-color", rgb_to_str(primary)),
            Decl("color-scheme", sch),
            Decl("filter", "hue-rotate(" \o ToString(logo_rotation)
                           \o "deg) saturate(130%) brightness(120%) !important")
            >>]
        : highlight \in {rel_adjust(primary, Lit(1, 10))},
          shade \in {rel_adjust(primary, Lit(-1, 10))},
          secondary \in {rel_adjust(contrast, Lit(-2, 10))},
          tertiary \in {rel_adjust(contrast, Lit(-4, 10))},
          input_bg \in {rel_adjust(primary, Lit(3, 10))},
          input_border \in {rel_adjust(primary, Lit(5, 10))},
          input_text \in {rel_adjust(contrast, Lit(1, 10))},
          menu_bg \in {rel_adjust(primary, Lit(2, 10))} })
      : primary \in {adjust(Lit(3, 10))}, contrast \in {adjust(Lit(18, 10))},
        logo_rotation \in {get_hue_rotation(LogoColor, base_color)} })
    : neutral_rgb \in {get_neutral_rgb(hex_to_rgb(base_color))} })

----------------------------------------------------------------------------
(* The command line.                                                       *)

\* re.match(r'^#[0-9A-Fa-f]{6}$', s): $ also matches before a final newline
MatchesHexColor(s) ==
    /\ Len(s) = 7 \/ (Len(s) = 8 /\ s[8] = "\n")
    /\ s[1] = "#"
    /\ \A i \in 2..7 : IsHexDigit(s[i])

UsageText == "Usage: maketheme.py <hex_color> [light|dark]"

ErrorText == "Error: Color must be in hex format (e.g., #50B464)"

----------------------------------------------------------------------------
(* Inputs.                                                                 *)

\* the colour channels are sampled on a grid of GridN steps from 0 to 255
GridN == 3

Channels == {(255 * i) \div GridN : i \in 0..GridN}

ExtraColors == {<<80, 180, 100>>, <<1, 0, 0>>, <<200, 100, 55>>,
                <<100, 50, 28>>, <<129, 94, 232>>}

Colors == (Channels \X Channels \X Channels) \cup ExtraColors

\* the base colours whose neutral anchors rl_adjust is applied with
NeutralBases == ({0, 255} \X {0, 255} \X {0, 255}) \cup ExtraColors

\* "#RRggBB" of a colour, in both alphabets of hex digits
ToHex(rgb) ==
    <<"#", UpperHex[(rgb[1] \div 16) + 1], UpperHex[(rgb[1] % 16) + 1],
           LowerHex[(rgb[2] \div 16) + 1], LowerHex[(rgb[2] % 16) + 1],
           UpperHex[(rgb[3] \div 16) + 1], UpperHex[(rgb[3] % 16) + 1]>>

HexColors == {ToHex(c) : c \in Colors}

\* arguments that are no colour, and one that ends in a newline
OtherArgs == { <<>>,
               <<"n", "o", "t", "a", "c", "o", "l", "o", "r">>,
               <<"5", "0", "B", "4", "6", "4">>,
               <<"#", "5", "0", "B", "4", "6">>,
               <<"#", "5", "0", "B", "4", "6", "4", "0">>,
               <<"#", "G", "G", "G", "G", "G", "G">>,
               <<"#", "#", "5", "0", "B", "4", "6", "4">>,
               <<"#", "5", "0", "B", "4", "6", "4", "\n">> }

ColorArgs == HexColors \cup OtherArgs

Schemes == {"dark", "light", "foo"}

Argvs == {<<"maketheme.py">>}
         \cup {<<"maketheme.py", c>> : c \in ColorArgs}
         \cup {<<"maketheme.py", c, s>> : c \in ColorArgs, s \in Schemes}

FPUs == {"exact", "short"}

\* positions in tenths, some outside [0, 2]
PositionTenths == (0..20) \cup {-5, 25}

\* shifts in thousandths: those of generate_theme, small ones, large ones
ShiftThousandths == {-3000, -400, -200, -100, -1, 0, 1, 100, 200, 300, 500, 3000}

NoArg == [c |-> <<0, 0, 0>>, neutral |-> <<0, 0, 0>>, sch |-> "",
          pos |-> Lit(0, 1), shift |-> Lit(0, 1), from |-> <<>>, to |-> <<>>]

NoRes == [exc |-> FALSE, rgb |-> <<0, 0, 0>>, pos |-> Lit(0, 1), n |-> 0]

----------------------------------------------------------------------------
(* The run of the program.                                                 *)

Init ==
    /\ pc = "main"
    /\ argv \in Argvs
    /\ color = <<>>
    /\ scheme = ""
    /\ called = FALSE
    /\ stdout = <<>>
    /\ exit = -1
    /\ fpu \in FPUs
    /\ op = "none"
    /\ arg = NoArg
    /\ res = NoRes

\* len(sys.argv) < 2: the usage text, exit status 1
Usage ==
    /\ pc = "main"
    /\ Len(argv) < 2
    /\ stdout' = Append(stdout, Text(UsageText))
    /\ exit' = 1
    /\ pc' = "done"
    /\ UNCHANGED <<argv, color, scheme, called, fpu, fnVars>>

\* color = sys.argv[1]; scheme = sys.argv[2] if len(sys.argv) > 2 else 'dark'
ReadArgs ==
    /\ pc = "main"
    /\ Len(argv) >= 2
    /\ color' = argv[2]
    /\ scheme' = IF Len(argv) > 2 THEN argv[3] ELSE "dark"
    /\ pc' = "validate"
    /\ UNCHANGED <<argv, called, stdout, exit, fpu, fnVars>>

\* the colour does not match: the error message, exit status 1
InvalidFormat ==
    /\ pc = "validate"
    /\ ~MatchesHexColor(color)
    /\ stdout' = Append(stdout, Text(ErrorText))
    /\ exit' = 1
    /\ pc' = "done"
    /\ UNCHANGED <<argv, color, scheme, called, fpu, fnVars>>

\* print(generate_theme(color, scheme))
PrintTheme ==
    /\ pc = "validate"
    /\ MatchesHexColor(color)
    /\ \E theme \in {generate_theme(color, scheme)} :
           /\ ~theme.exc
           /\ stdout' = stdout \o theme.css
    /\ called' = TRUE
    /\ exit' = 0
    /\ pc' = "done"
    /\ UNCHANGED <<argv, color, scheme, fpu, fnVars>>

\* generate_theme raises: nothing is printed, the interpreter ends the
\* process with a traceback and exit status 1
ThemeRaises ==
    /\ pc = "validate"
    /\ MatchesHexColor(color)
    /\ generate_theme(color, scheme).exc
    /\ called' = TRUE
    /\ exit' = 1
    /\ pc' = "done"
    /\ UNCHANGED <<argv, color, scheme, stdout, fpu, fnVars>>

Next == Usage \/ ReadArgs \/ InvalidFormat \/ PrintTheme \/ ThemeRaises

Spec == Init /\ [][Next]_vars

----------------------------------------------------------------------------
(* The functions applied to inputs of their own.                           *)

InitFn ==
    /\ pc = "idle"
    /\ argv = <<>>
    /\ color = <<>>
    /\ scheme = ""
    /\ called = FALSE
    /\ stdout = <<>>
    /\ exit = -1
    /\ fpu \in FPUs
    /\ op = "none"
    /\ arg = NoArg
    /\ res = NoRes

ApplyNeutral ==
    /\ op = "none"
    /\ \E c \in Colors :
        /\ op' = "get_neutral_rgb"
        /\ arg' = [NoArg EXCEPT !.c = c]
        /\ res' = [NoRes EXCEPT !.rgb = get_neutral_rgb(c)]
        /\ UNCHANGED <<progVars, fpu>>

ApplySchemeAdjust ==
    /\ op = "none"
    /\ \E neutral \in Colors, sch \in Schemes, k \in PositionTenths :
        /\ op' = "scheme_adjust_dl"
        /\ arg' = [NoArg EXCEPT !.neutral = neutral, !.sch = sch,
                                !.pos = Lit(k, 10)]
        /\ res' = [NoRes EXCEPT !.rgb = scheme_adjust_dl(neutral, sch, Lit(k, 10))]
        /\ UNCHANGED <<progVars, fpu>>

ApplyRlAdjust ==
    /\ op = "none"
    /\ \E c \in Colors, base \in NeutralBases, sch \in Schemes,
       k \in ShiftThousandths :
        \E neutral \in {get_neutral_rgb(base)} :
        \E r \in {rl_adjust(c, Lit(k, 1000), neutral, sch)} :
            /\ op' = "rl_adjust"
            /\ arg' = [NoArg EXCEPT !.c = c, !.neutral = neutral, !.sch = sch,
                                    !.shift = Lit(k, 1000)]
            /\ res' = [NoRes EXCEPT
                          !.exc = r.exc, !.rgb = r.val,
                          !.pos = rl_position(c, Lit(k, 1000), neutral, sch).val]
            /\ UNCHANGED <<progVars, fpu>>

ApplyHueRotation ==
    /\ op = "none"
    /\ \E a \in HexColors, b \in HexColors :
        /\ op' = "get_hue_rotation"
        /\ arg' = [NoArg EXCEPT !.from = a, !.to = b]
        /\ res' = [NoRes EXCEPT !.n = get_hue_rotation(a, b)]
        /\ UNCHANGED <<progVars, fpu>>

NextFn == ApplyNeutral \/ ApplySchemeAdjust \/ ApplyRlAdjust \/ ApplyHueRotation

SpecFn == InitFn /\ [][NextFn]_vars

----------------------------------------------------------------------------
(* Properties.                                                             *)

Black == <<0, 0, 0>>

White == <<255, 255, 255>>

Green == <<80, 180, 100>>

\* the value declared for prop in the lines
ValueOf(lines, prop) ==
    lines[CHOOSE i \in 1..Len(lines) : lines[i].prop = prop].val

HasRootBlock(lines) == \E i \in 1..Len(lines) : lines[i] = Text(":root {")

\* the run printed a theme
Printed == pc = "done" /\ called /\ exit = 0

\* C1: for a valid base colour and a scheme other than 'light', every colour
\* value generate_theme emits equals the one emitted for 'dark'.
C1_NonLightIsDark ==
    (Printed /\ scheme # "light") =>
        \A dark \in {generate_theme(color, "dark")} :
            /\ ~dark.exc
            /\ Len(stdout) = Len(dark.css)
            /\ \A i \in 1..Len(stdout) :
                   stdout[i].prop # "color-scheme" => stdout[i] = dark.css[i]

\* C2: for every base colour that passes validation, and any scheme,
\* generate_theme runs to completion and the CSS text is printed.
C2_ValidColorCompletes ==
    (pc = "done" /\ MatchesHexColor(color)) =>
        (exit = 0 /\ HasRootBlock(stdout))

\* C3: a run ends in exactly one of three outcomes: usage text and a non-zero
\* status without arguments; the error message and a non-zero status for a
\* colour that does not match; the generated CSS otherwise.  In the two
\* failures generate_theme is not called and no :root block is written.
C3_ThreeOutcomes ==
    pc = "done" =>
        \/ /\ Len(argv) < 2
           /\ stdout = <<Text(UsageText)>> /\ exit # 0 /\ ~called
        \/ /\ Len(argv) >= 2 /\ ~MatchesHexColor(argv[2])
           /\ stdout = <<Text(ErrorText)>> /\ exit # 0 /\ ~called
        \/ /\ Len(argv) >= 2 /\ MatchesHexColor(argv[2])
           /\ called /\ HasRootBlock(stdout) /\ exit = 0

\* a light run of the sample colour whose ramp differs from the dark one
C6_Witness ==
    /\ Printed /\ scheme = "light" /\ hex_to_rgb(color) = Green
    /\ \A dark \in {generate_theme(color, "dark")} :
           /\ ValueOf(stdout, "--contrast-5") # ValueOf(dark.css, "--contrast-5")
           /\ ValueOf(stdout, "--contrast-50") = ValueOf(dark.css, "--contrast-50")

\* C6 as claimed: for the same base colour the light run emits a
\* --contrast-50 value different from the one the dark run emits.
C6_LightContrast50Differs ==
    (Printed /\ scheme = "light") =>
        \A dark \in {generate_theme(color, "dark")} :
            ValueOf(stdout, "--contrast-50") # ValueOf(dark.css, "--contrast-50")

\* C6 as amended: for the same base colour the light run and the dark run
\* emit the same --contrast-50 value, the neutral colour at position 1.0.
C6_Contrast50SameInBothSchemes ==
    (Printed /\ scheme = "light") =>
        \A dark \in {generate_theme(color, "dark")} :
            /\ ~dark.exc
            /\ ValueOf(stdout, "--contrast-50") = ValueOf(dark.css, "--contrast-50")
            /\ ValueOf(stdout, "--contrast-50")
                   = rgb_to_str(get_neutral_rgb(hex_to_rgb(color)))

\* the function f was applied with one of the two documented schemes
Applied(f) == op = f /\ arg.sch \in {"dark", "light"}

\* C4 as claimed: in both schemes scheme_adjust_dl returns (0,0,0) at
\* position 0.0 and (255,255,255) at position 2.0.
C4_EndpointsInBothSchemes ==
    Applied("scheme_adjust_dl") =>
        /\ arg.pos = Lit(0, 10) => res.rgb = Black
        /\ arg.pos = Lit(20, 10) => res.rgb = White

\* C4 as amended: in the dark scheme scheme_adjust_dl returns (0,0,0) at
\* position 0.0 and (255,255,255) at position 2.0; in the light scheme,
\* which inverts the position, (255,255,255) at 0.0 and (0,0,0) at 2.0.
C4_EndpointsByScheme ==
    Applied("scheme_adjust_dl") =>
        /\ arg.pos = Lit(0, 10) =>
               res.rgb = (IF arg.sch = "light" THEN White ELSE Black)
        /\ arg.pos = Lit(20, 10) =>
               res.rgb = (IF arg.sch = "light" THEN Black ELSE White)

C4_Witness ==
    /\ Applied("scheme_adjust_dl") /\ arg.sch = "light" /\ arg.neutral = Green
    /\ arg.pos = Lit(0, 10) /\ res.rgb = White

\* C5: in both schemes scheme_adjust_dl at position 1.0 returns the neutral
\* colour, channel for channel.
C5_PositionOneIsNeutral ==
    (Applied("scheme_adjust_dl") /\ arg.pos = Lit(10, 10)) =>
        \A i \in 1..3 : res.rgb[i] = arg.neutral[i]

C5_Witness ==
    /\ Applied("scheme_adjust_dl") /\ arg.sch = "light" /\ fpu = "short"
    /\ arg.pos = Lit(10, 10) /\ arg.neutral = Green /\ res.rgb = Green

InRange(p) == RLe(Lit(0, 1), p) /\ RLe(p, Lit(2, 1))

\* C7: for every colour, neutral anchor, scheme and shift, the position of
\* the result of rl_adjust, recomputed with get_position against the same
\* neutral, is defined and lies in [0, 2], as does current_pos + shift.
C7_ShiftedPositionInRange ==
    op = "rl_adjust" =>
        /\ ~res.exc
        /\ InRange(res.pos)
        /\ \A back \in {get_position(res.rgb, arg.neutral)} :
               ~back.exc /\ InRange(back.val)

\* C8: get_hue_rotation(a, b) = -get_hue_rotation(b, a), an integer in
\* [-180, 180].
C8_HueRotationAntisymmetric ==
    op = "get_hue_rotation" =>
        /\ res.n = -get_hue_rotation(arg.to, arg.from)
        /\ res.n \in -180..180

\* red to magenta: a hue difference of 300 degrees, wrapped to -60
C8_Witness ==
    /\ op = "get_hue_rotation"
    /\ hex_to_rgb(arg.from) = <<255, 0, 0>> /\ hex_to_rgb(arg.to) = <<255, 0, 255>>
    /\ res.n = -60

\* 510 times the HSL lightness of a colour
LightnessSum(rgb) == Max3(rgb[1], rgb[2], rgb[3]) + Min3(rgb[1], rgb[2], rgb[3])

\* C9: for an input other than black get_neutral_rgb returns a colour whose
\* lightness is 0.5 up to the truncation of its channels (255 >= max+min >=
\* 253) and no scaled channel needs the clamp; black is returned unchanged.
C9_NeutralLightness ==
    op = "get_neutral_rgb" =>
        IF arg.c = Black THEN res.rgb = Black
        ELSE /\ \A i \in 1..3 :
                    ScaleChannel(arg.c[i], neutral_factor(arg.c)) \in 0..255
             /\ LightnessSum(res.rgb) \in 253..255

C9_Witness ==
    /\ op = "get_neutral_rgb" /\ arg.c = Green
    /\ res.rgb # arg.c /\ LightnessSum(res.rgb) < 255

\* the scheme-relative order of positions: p before q
RelLe(sch, p, q) == IF sch = "light" THEN RLe(q, p) ELSE RLe(p, q)

\* the shift moved the position from p to q in its own direction, or not at all
Toward(sch, shift, p, q) ==
    /\ shift.n > 0 => RelLe(sch, p, q)
    /\ shift.n < 0 => RelLe(sch, q, p)

\* C10 as claimed: a positive shift never decreases and a negative shift
\* never increases the scheme-relative position of the colour, measured on
\* the result with get_position.
C10_ShiftDirectionMeasured ==
    (op = "rl_adjust" /\ arg.sch \in {"dark", "light"} /\ ~res.exc) =>
        \A cur \in {get_position(arg.c, arg.neutral)},
           back \in {get_position(res.rgb, arg.neutral)} :
            ~back.exc => Toward(arg.sch, arg.shift, cur.val, back.val)

\* C10 as amended: rl_adjust fails only when the position of the colour
\* against the neutral is undefined; otherwise the position current_pos +
\* shift at which it generates the result never lies against the direction
\* of the shift, in scheme-relative terms, and the position measured on the
\* truncated result follows once the shift is at least 0.1 in magnitude.
C10_ShiftDirection ==
    (op = "rl_adjust" /\ arg.sch \in {"dark", "light"}) =>
        \A cur \in {get_position(arg.c, arg.neutral)},
           back \in {get_position(res.rgb, arg.neutral)} :
            /\ res.exc = cur.exc
            /\ ~cur.exc =>
                 /\ Toward(arg.sch, arg.shift, cur.val, res.pos)
                 /\ (~back.exc /\ Abs(arg.shift.n) * 10 >= arg.shift.d) =>
                        Toward(arg.sch, arg.shift, cur.val, back.val)

\* a positive shift in the light scheme that made the colour darker
C10_Witness ==
    /\ op = "rl_adjust" /\ arg.sch = "light" /\ ~res.exc
    /\ arg.c = Green /\ arg.shift = Lit(100, 1000)
    /\ \A cur \in {get_position(arg.c, arg.neutral)},
          back \in {get_position(res.rgb, arg.neutral)} :
           /\ ~back.exc
           /\ RLt(res.pos, cur.val)
           /\ RLt(back.val, cur.val)

====
